---------------------------- MODULE Spec2Model ----------------------------
(***************************************************************************)
(* Model of the trade client example of cw-sdk-go                          *)
(* (cmd/trade-client/main.go).                                             *)
(*                                                                         *)
(* Three concurrent activities are modelled:                               *)
(*   - main: the coordinator (argument validation, set-up, the select      *)
(*     between OS signals and app.errChan, Close, process exit);           *)
(*   - TradeApp.run: the orchestrator goroutine (Connect, the select       *)
(*     between ctx.Done() and app.ready, the mode switch, the send on      *)
(*     app.errChan);                                                       *)
(*   - the websocket.TradeClient collaborator (package client/websocket):  *)
(*     its connection states, its invocations of the callbacks (OnReady,   *)
(*     OnError) and the returns of its trading calls and of Close are      *)
(*     events of the environment.                                          *)
(*                                                                         *)
(* The callbacks of the verbose mode (the state-change reporter and its     *)
(* lastErrChan) read and write nothing that main, run or the other         *)
(* callbacks use, and the collaborator's invocations of callbacks are taken *)
(* as independent of one another; the reporter is therefore specified on   *)
(* its own (ReporterSpec) against the collaborator's errors and state      *)
(* changes.  The market-stream example program is a program of its own     *)
(* (StreamSpec).                                                           *)
(*                                                                         *)
(* Go channels are modelled with their runtime semantics: a buffer of      *)
(* fixed capacity plus a FIFO queue of blocked senders; a receive takes    *)
(* the head of the buffer and moves the first blocked sender's value in.   *)
(***************************************************************************)
EXTENDS Integers, Sequences, FiniteSets, TLC

VARIABLES
    args,           \* cliArgs: [Mode, MarketID, OrderID]
    mainPc,         \* position of main
    exitStatus,     \* -1 while the process runs, then the exit status
    mainLog,        \* what main has logged, in order
    orchPc,         \* position of the goroutine running TradeApp.run
    ctxDone,        \* cancel() has been called: ctx.Done() is closed
    signals,        \* number of OS signals buffered in the signals channel
    notified,       \* signal.Notify is in force (and signal.Stop not yet called)
    errChan,        \* app.errChan: [buf: seq of errors, sendq: seq of blocked sends]
    readyq,         \* OnReady callbacks blocked in the send on app.ready
    connState,      \* the collaborator's connection state
    call,           \* the trading call in flight: <<>> or <<operation>>
    hist,           \* history of the run (observations only, never read by the program)
    reporter,       \* the verbose state-change reporter: lastErrChan and what it rendered
    stream          \* the market-stream example program

vars == <<args, mainPc, exitStatus, mainLog, orchPc, ctxDone, signals, notified,
          errChan, readyq, connState, call, hist, reporter, stream>>

-----------------------------------------------------------------------------
(* Bounds of the model *)

MaxReady == 2       \* readiness notifications the collaborator may deliver
MaxErrors == 2      \* error notifications the collaborator may deliver
MaxSignals == 1     \* operator interrupts
MaxTransitions == 2 \* state changes the market connection may report
MaxMessages == 2    \* market updates the market connection may deliver

(* Program constants *)

ErrChanCap == 1     \* make(chan error, 1)
LastErrChanCap == 1 \* lastErrChan := make(chan error, 1)
InterruptCap == 1   \* interrupt := make(chan os.Signal, 1)
SignalsCap == 1     \* make(chan os.Signal, 1)

-----------------------------------------------------------------------------
(* Error values.  Every error is a record so that any two can be compared. *)

Err(kind, n) == [kind |-> kind, n |-> n]

NilErr == Err("nil", 0)                     \* the nil error
errUnknownMode == Err("unknown mode", 0)
ctxCanceled == Err("context canceled", 0)   \* ctx.Err() once cancel() was called
errModeEmpty == Err("mode is not specified", 0)
errMarketEmpty == Err("marketid is empty", 0)
errOrderEmpty == Err("orderid is empty", 0)
errRejected == Err("rejected", 0)           \* a trading call refused by the remote side
errClose == Err("close failed", 0)
SessionErr(k) == Err("session", k)          \* the k-th error the collaborator reports

Modes == {"list", "balances", "place", "cancel"}

\* The argument sets the flag parser can hand over.
ModeInputs == Modes \cup {"", "bogus"}
MarketInputs == {0, 1}
OrderInputs == {"", "o1"}

\* What a trading call of the collaborator may return: (result, error).
OrderLists == {<<>>, <<"A1", "A2">>}

CallReturns(op) ==
    IF op = "GetOrders"
    THEN {[val |-> l, err |-> NilErr] : l \in OrderLists}
         \cup {[val |-> <<>>, err |-> errRejected]}
    ELSE {[val |-> <<"ok">>, err |-> NilErr], [val |-> <<>>, err |-> errRejected]}

-----------------------------------------------------------------------------
(* checkCliArgs *)


\* Variant: the order id of a cancel is not checked.
checkCliArgsNoOrderID(a) ==
    IF a.Mode = "" THEN errModeEmpty
    ELSE IF a.Mode # "place" /\ a.Mode # "cancel" /\ a.Mode # "list" /\ a.Mode # "balances"
         THEN errUnknownMode
    ELSE IF a.MarketID = 0 THEN errMarketEmpty
    ELSE NilErr

\* Variant: the mode is not checked against the four known modes.
checkCliArgsAnyMode(a) ==
    IF a.Mode = "" THEN errModeEmpty
    ELSE IF a.MarketID = 0 THEN errMarketEmpty
    ELSE IF a.Mode = "cancel" /\ a.OrderID = "" THEN errOrderEmpty
    ELSE NilErr

checkCliArgs(a) ==
    IF a.Mode = "" THEN errModeEmpty
    ELSE IF a.Mode # "place" /\ a.Mode # "cancel" /\ a.Mode # "list" /\ a.Mode # "balances"
         THEN errUnknownMode
    ELSE IF a.MarketID = 0 THEN errMarketEmpty
    ELSE IF a.Mode = "cancel" /\ a.OrderID = "" THEN errOrderEmpty
    ELSE NilErr

-----------------------------------------------------------------------------
(* Go channel operations on app.errChan *)

EmptyChan == [buf |-> <<>>, sendq |-> <<>>]


\* Variant: a send on a full buffer overwrites the buffered value.
ChanSendOverwrite(ch, who, v) == [ch EXCEPT !.buf = <<v>>]

\* ch <- v executed by `who`: into the buffer when there is room, else the
\* sender is parked at the tail of the send queue.
ChanSend(ch, who, v) ==
    IF Len(ch.buf) < ErrChanCap
    THEN [ch EXCEPT !.buf = Append(@, v)]
    ELSE [ch EXCEPT !.sendq = Append(@, [who |-> who, v |-> v])]

\* Whether the send just executed on ch (now ch2) left its sender parked.
SendParked(ch, ch2) == Len(ch2.sendq) > Len(ch.sendq)

CanRecv(ch) == Len(ch.buf) > 0

\* The value <-ch yields.
RecvValue(ch) == Head(ch.buf)

\* The channel after <-ch: the head of the buffer leaves, and the first parked
\* sender, if any, completes its send.
RecvChan(ch) ==
    IF Len(ch.sendq) > 0
    THEN [buf |-> Append(Tail(ch.buf), Head(ch.sendq).v), sendq |-> Tail(ch.sendq)]
    ELSE [buf |-> Tail(ch.buf), sendq |-> <<>>]

\* The sender a receive on ch releases, "" if none.
RecvReleases(ch) == IF Len(ch.sendq) > 0 THEN Head(ch.sendq).who ELSE ""


-----------------------------------------------------------------------------
\* The reporter and the market-stream program before they are started.
ReporterOff ==
    [verbose |-> FALSE, lastErrChan |-> EmptyChan, state |-> "disconnected",
     errors |-> 0, reported |-> <<>>, printed |-> <<>>, annotated |-> <<>>,
     lastAnnot |-> <<>>]

StreamOff ==
    [pc |-> "off", url |-> "", detailed |-> FALSE, interrupt |-> 0, state |-> "disconnected",
     connects |-> 0, closes |-> 0, closeRet |-> <<>>, status |-> -1,
     interrupts |-> 0, received |-> FALSE, transitions |-> 0, messages |-> 0,
     out |-> <<>>, lastLine |-> <<>>]

Init ==
    /\ reporter = ReporterOff
    /\ stream = StreamOff
    /\ args \in [Mode : ModeInputs, MarketID : MarketInputs, OrderID : OrderInputs]
    /\ mainPc = "checkArgs"
    /\ exitStatus = -1
    /\ mainLog = <<>>
    /\ orchPc = "idle"
    /\ ctxDone = FALSE
    /\ signals = 0
    /\ notified = FALSE
    /\ errChan = EmptyChan
    /\ readyq = 0
    /\ connState = "disconnected"
    /\ call = <<>>
    /\ hist = [connects |-> 0, closes |-> 0, readyFired |-> 0, errorsReported |-> 0,
               interrupts |-> 0, calls |-> <<>>, rets |-> <<>>, sends |-> <<>>,
               mainRead |-> <<>>, race |-> "running", intrBeforeReady |-> FALSE,
               silentClose |-> FALSE, closeRet |-> <<>>]

Alive == mainPc # "exited"


LogLine(msg, e) == [msg |-> msg, err |-> e]

-----------------------------------------------------------------------------
(* main: the coordinator *)

\* if err := checkCliArgs(args); err != nil { log.Print(err); os.Exit(1) }
MainCheckArgs ==
    /\ mainPc = "checkArgs"
    /\ LET err == checkCliArgs(args) IN
       IF err # NilErr
       THEN /\ mainLog' = Append(mainLog, LogLine("Print", err))
            /\ mainPc' = "exited"
            /\ exitStatus' = 1
       ELSE /\ mainPc' = "loadCfg"
            /\ UNCHANGED <<mainLog, exitStatus>>
    /\ UNCHANGED <<reporter, stream, args, orchPc, ctxDone, signals, notified, errChan, readyq,
                   connState, call, hist>>

\* config.NewFromPath / config.Get: a configuration that cannot be read ends
\* the process with status 1.
MainLoadConfig ==
    /\ mainPc = "loadCfg"
    /\ \E cfgErr \in {NilErr, Err("config", 0)} :
          IF cfgErr # NilErr
          THEN /\ mainLog' = Append(mainLog, LogLine("Print", cfgErr))
               /\ mainPc' = "exited"
               /\ exitStatus' = 1
          ELSE /\ mainPc' = "newApp"
               /\ UNCHANGED <<mainLog, exitStatus>>
    /\ UNCHANGED <<reporter, stream, args, orchPc, ctxDone, signals, notified, errChan, readyq,
                   connState, call, hist>>

\* app, err := NewTradeApp(args, cfg): creates the client, the ready channel
\* and errChan, and registers the callbacks; a client that cannot be created
\* ends the process with status 1.
MainNewTradeApp ==
    /\ mainPc = "newApp"
    /\ \E err \in {NilErr, Err("new client", 0)} :
          IF err # NilErr
          THEN /\ mainLog' = Append(mainLog, LogLine("Print", err))
               /\ mainPc' = "exited"
               /\ exitStatus' = 1
          ELSE /\ mainPc' = "spawn"
               /\ UNCHANGED <<mainLog, exitStatus>>
    /\ UNCHANGED <<reporter, stream, args, orchPc, ctxDone, signals, notified, errChan, readyq,
                   connState, call, hist>>

\* ctx, cancel := context.WithCancel(...); go app.run(ctx)
MainSpawnRun ==
    /\ mainPc = "spawn"
    /\ mainPc' = "notify"
    /\ orchPc' = "connect"
    /\ UNCHANGED <<reporter, stream, args, exitStatus, mainLog, ctxDone, signals, notified, errChan,
                   readyq, connState, call, hist>>

\* signals := make(chan os.Signal, 1); signal.Notify(signals, ...)
MainNotify ==
    /\ mainPc = "notify"
    /\ mainPc' = "select"
    /\ notified' = TRUE
    /\ UNCHANGED <<reporter, stream, args, exitStatus, mainLog, orchPc, ctxDone, signals, errChan,
                   readyq, connState, call, hist>>

\* select { case <-signals:
MainSelectSignal ==
    /\ mainPc = "select"
    /\ signals > 0
    /\ signals' = signals - 1
    /\ mainPc' = "sigCancel"
    /\ hist' = [hist EXCEPT !.race = "signal"]
    /\ UNCHANGED <<reporter, stream, args, exitStatus, mainLog, orchPc, ctxDone, notified, errChan,
                   readyq, connState, call>>

\* select { case err := <-app.errChan:
\* The receive lets the first parked sender complete its send.
MainSelectErr ==
    /\ mainPc = "select"
    /\ CanRecv(errChan)
    /\ hist' = [hist EXCEPT !.race = "outcome", !.mainRead = <<RecvValue(errChan)>>]
    /\ orchPc' = IF RecvReleases(errChan) = "run" THEN "done" ELSE orchPc
    /\ errChan' = RecvChan(errChan)
    /\ mainPc' = "errCancel"
    /\ UNCHANGED <<reporter, stream, args, exitStatus, mainLog, ctxDone, signals, notified, readyq,
                   connState, call>>


\* Variant: the signal branch ends the process without closing the connection.
MainCancelOnSignalExit ==
    /\ mainPc = "sigCancel"
    /\ ctxDone' = TRUE
    /\ mainPc' = "exited"
    /\ exitStatus' = 0
    /\ hist' = [hist EXCEPT !.intrBeforeReady = (hist.readyFired = 0)]
    /\ UNCHANGED <<reporter, stream, args, mainLog, orchPc, signals, notified, errChan,
                   readyq, connState, call>>

\* case <-signals: cancel()
MainCancelOnSignal ==
    /\ mainPc = "sigCancel"
    /\ ctxDone' = TRUE
    /\ mainPc' = "close"
    /\ hist' = [hist EXCEPT !.intrBeforeReady = (hist.readyFired = 0)]
    /\ UNCHANGED <<reporter, stream, args, exitStatus, mainLog, orchPc, signals, notified, errChan,
                   readyq, connState, call>>

\* case err := <-app.errChan: cancel(); if err != nil { log.Printf("Error: %s", err);
\* if err == errUnknownMode { flag.PrintDefaults() } }; signal.Stop(signals)
MainCancelOnErr ==
    /\ mainPc = "errCancel"
    /\ ctxDone' = TRUE
    /\ LET err == hist.mainRead[1] IN
       mainLog' = IF err = NilErr THEN mainLog
                  ELSE IF err = errUnknownMode
                       THEN mainLog \o <<LogLine("Error", err), LogLine("PrintDefaults", NilErr)>>
                       ELSE Append(mainLog, LogLine("Error", err))
    /\ notified' = FALSE
    /\ mainPc' = "close"
    /\ UNCHANGED <<reporter, stream, args, exitStatus, orchPc, signals, errChan, readyq, connState,
                   call, hist>>

\* log.Printf("Closing connection..."); app.client.Close() is called
MainClose ==
    /\ mainPc = "close"
    /\ mainLog' = Append(mainLog, LogLine("Closing connection...", NilErr))
    /\ hist' = [hist EXCEPT !.closes = @ + 1]
    /\ connState' = "disconnected"
    /\ mainPc' = "inClose"
    /\ UNCHANGED <<reporter, stream, args, exitStatus, orchPc, ctxDone, signals, notified, errChan,
                   readyq, call>>

\* What main does with the value Close returned:
\* if err != nil { log.Fatalf("Failed to close connection: %s", err) }, else
\* main returns (the deferred cancel() runs) and the process ends with status 0.
AfterClose(err) ==
    IF err # NilErr
    THEN [log |-> <<LogLine("Fatalf: Failed to close connection", err)>>, status |-> 1]
    ELSE [log |-> <<>>, status |-> 0]

\* app.client.Close() returns err; the process ends, and every goroutine with it.
MainCloseReturn ==
    /\ mainPc = "inClose"
    /\ \E err \in {NilErr, errClose} :
          /\ mainLog' = mainLog \o AfterClose(err).log
          /\ exitStatus' = AfterClose(err).status
          /\ hist' = [hist EXCEPT !.closeRet = <<err>>]
    /\ ctxDone' = TRUE
    /\ mainPc' = "exited"
    /\ UNCHANGED <<reporter, stream, args, orchPc, signals, notified, errChan, readyq, connState, call>>

\* The operator interrupts (SIGINT, SIGQUIT, SIGTERM).  The runtime delivers a
\* signal to the channel without blocking: it is dropped when the buffer is full.
OperatorInterrupt ==
    /\ Alive
    /\ notified
    /\ hist.interrupts < MaxSignals
    /\ signals' = IF signals < SignalsCap THEN signals + 1 ELSE signals
    /\ hist' = [hist EXCEPT !.interrupts = @ + 1]
    /\ UNCHANGED <<reporter, stream, args, mainPc, exitStatus, mainLog, orchPc, ctxDone, notified,
                   errChan, readyq, connState, call>>

-----------------------------------------------------------------------------
(* TradeApp.run: the orchestrator, and the four commands *)

\* The collaborator operation each command calls ("" for the default branch
\* of the switch, which calls none).
DispatchOp(mode) ==
    CASE mode = "list" -> "GetOrders"
      [] mode = "balances" -> "GetBalances"
      [] mode = "place" -> "PlaceOrder"
      [] mode = "cancel" -> "CancelOrder"
      [] OTHER -> ""

\* What each command returns, given what its collaborator call returned.
list(ret) == IF ret.err # NilErr THEN ret.err ELSE NilErr

balances(ret) == IF ret.err # NilErr THEN ret.err ELSE NilErr


\* Variant: place logs the rejection and returns nil.
placeDropsError(ret) == NilErr

place(ret) == IF ret.err # NilErr THEN ret.err ELSE NilErr

cancel(ret) == IF ret.err # NilErr THEN ret.err ELSE NilErr

\* switch app.args.Mode: the value sent on errChan.
DispatchResult(mode, ret) ==
    CASE mode = "list" -> list(ret)
      [] mode = "balances" -> balances(ret)
      [] mode = "place" -> place(ret)
      [] mode = "cancel" -> cancel(ret)
      [] OTHER -> errUnknownMode


\* Variant: run loops back to its select after the send (for { select ... }).
RunSendLoop(v, h) ==
    /\ errChan' = ChanSend(errChan, "run", v)
    /\ orchPc' = IF SendParked(errChan, ChanSend(errChan, "run", v)) THEN "sending" ELSE "select"
    /\ hist' = [h EXCEPT !.sends = Append(@, [who |-> "run", v |-> v])]

\* app.errChan <- v, executed by run: run ends when the value is taken into
\* the buffer, and stays parked in the send otherwise.  h is the history so far.
RunSend(v, h) ==
    /\ errChan' = ChanSend(errChan, "run", v)
    /\ orchPc' = IF SendParked(errChan, ChanSend(errChan, "run", v)) THEN "sending" ELSE "done"
    /\ hist' = [h EXCEPT !.sends = Append(@, [who |-> "run", v |-> v])]

\* app.client.Connect()
RunConnect ==
    /\ Alive
    /\ orchPc = "connect"
    /\ orchPc' = "select"
    /\ connState' = IF connState = "disconnected" THEN "connecting" ELSE connState
    /\ hist' = [hist EXCEPT !.connects = @ + 1]
    /\ UNCHANGED <<reporter, stream, args, mainPc, exitStatus, mainLog, ctxDone, signals, notified,
                   errChan, readyq, call>>

\* select { case <-ctx.Done(): app.errChan <- ctx.Err()
\* orchPc = "select" stands for run being about to execute the select as well
\* as for run waiting in it: Go picks among the cases that are ready when the
\* select is executed, so with ctx.Done() closed and an OnReady callback parked
\* either branch may be taken.
RunSelectDone ==
    /\ Alive
    /\ orchPc = "select"
    /\ ctxDone
    /\ RunSend(ctxCanceled, hist)
    /\ UNCHANGED <<reporter, stream, args, mainPc, exitStatus, mainLog, ctxDone, signals, notified,
                   readyq, connState, call>>


\* Variant: the ready channel yields without a sender (a closed channel).
ReadyCanRecvClosed(q) == TRUE

\* Whether the receive of the select's case <-app.ready can proceed: the
\* channel is unbuffered, so only when a sender is parked on it.
ReadyCanRecv(q) == q > 0

\* select { case <-app.ready: switch app.args.Mode {...}
\* One parked OnReady callback is released; the command's collaborator call
\* starts (or, in the default branch, errUnknownMode is sent).
RunSelectReady ==
    /\ Alive
    /\ orchPc = "select"
    /\ ReadyCanRecv(readyq)
    /\ readyq' = readyq - 1
    /\ LET op == DispatchOp(args.Mode) IN
       IF op = ""
       THEN /\ RunSend(DispatchResult(args.Mode, [val |-> <<>>, err |-> NilErr]), hist)
            /\ call' = call
       ELSE /\ call' = <<op>>
            /\ orchPc' = "call"
            /\ hist' = [hist EXCEPT !.calls = Append(@, op)]
            /\ errChan' = errChan
    /\ UNCHANGED <<reporter, stream, args, mainPc, exitStatus, mainLog, ctxDone, signals, notified,
                   connState>>

\* The collaborator call returns ret; the command maps it to its result and
\* run sends the result: app.errChan <- app.list() (balances, place, cancel).
RunCallReturn ==
    /\ Alive
    /\ orchPc = "call"
    /\ \E ret \in CallReturns(call[1]) :
          RunSend(DispatchResult(args.Mode, ret), [hist EXCEPT !.rets = Append(@, ret)])
    /\ call' = <<>>
    /\ UNCHANGED <<reporter, stream, args, mainPc, exitStatus, mainLog, ctxDone, signals, notified,
                   readyq, connState>>

-----------------------------------------------------------------------------
(* The callbacks NewTradeApp registers *)

\* app.client.OnReady(func() { app.ready <- struct{}{} }): the invocation parks
\* in the send until run receives.
OnReady(q) == q + 1

\* Variant: the callback writes nothing on errChan.
OnErrorDropped(ch, err) == ch

\* app.client.OnError(func(mID, err, disconnecting) { if err != nil { app.errChan <- err } })
OnError(ch, err) == IF err # NilErr THEN ChanSend(ch, "OnError", err) ELSE ch

-----------------------------------------------------------------------------
(* The collaborator (websocket.TradeClient): connection states and events *)

\* connecting -> authenticating
SessionAdvance ==
    /\ Alive
    /\ connState = "connecting"
    /\ connState' = "authenticating"
    /\ UNCHANGED <<reporter, stream, args, mainPc, exitStatus, mainLog, orchPc, ctxDone, signals,
                   notified, errChan, readyq, call, hist>>

\* authenticating -> ready; the readiness callback is invoked.
SessionReady ==
    /\ Alive
    /\ connState = "authenticating"
    /\ hist.readyFired < MaxReady
    /\ connState' = "ready"
    /\ readyq' = OnReady(readyq)
    /\ hist' = [hist EXCEPT !.readyFired = @ + 1]
    /\ UNCHANGED <<reporter, stream, args, mainPc, exitStatus, mainLog, orchPc, ctxDone, signals,
                   notified, errChan, call>>

\* The connection closes on the collaborator's side: back to disconnected.
SessionDrop ==
    /\ Alive
    /\ connState \in {"connecting", "authenticating", "ready"}
    /\ connState' = "disconnected"
    /\ hist' = [hist EXCEPT !.silentClose =
                   @ \/ (hist.readyFired = 0 /\ hist.errorsReported = 0 /\ hist.closes = 0)]
    /\ UNCHANGED <<reporter, stream, args, mainPc, exitStatus, mainLog, orchPc, ctxDone, signals,
                   notified, errChan, readyq, call>>

\* The collaborator reconnects on its own, as long as Close was not called.
SessionReconnect ==
    /\ Alive
    /\ connState = "disconnected"
    /\ hist.connects > 0
    /\ hist.closes = 0
    /\ connState' = "connecting"
    /\ UNCHANGED <<reporter, stream, args, mainPc, exitStatus, mainLog, orchPc, ctxDone, signals,
                   notified, errChan, readyq, call, hist>>

\* The collaborator reports an error (possibly nil) to the error callback.
SessionError ==
    /\ Alive
    /\ hist.connects > 0
    /\ hist.errorsReported < MaxErrors
    /\ \E err \in {NilErr, SessionErr(hist.errorsReported + 1)} :
          /\ errChan' = OnError(errChan, err)
          /\ hist' = [hist EXCEPT !.errorsReported = @ + 1,
                                  !.sends = IF err # NilErr
                                            THEN Append(@, [who |-> "OnError", v |-> err])
                                            ELSE @]
    /\ UNCHANGED <<reporter, stream, args, mainPc, exitStatus, mainLog, orchPc, ctxDone, signals,
                   notified, readyq, connState, call>>

-----------------------------------------------------------------------------
MainStep ==
    \/ MainCheckArgs
    \/ MainLoadConfig
    \/ MainNewTradeApp
    \/ MainSpawnRun
    \/ MainNotify
    \/ MainSelectSignal
    \/ MainSelectErr
    \/ MainCancelOnSignal
    \/ MainCancelOnErr
    \/ MainClose
    \/ MainCloseReturn

RunStep ==
    \/ RunConnect
    \/ RunSelectDone
    \/ RunSelectReady
    \/ RunCallReturn

SessionStep ==
    \/ SessionAdvance
    \/ SessionReady
    \/ SessionDrop
    \/ SessionReconnect
    \/ SessionError

Next ==
    \/ MainStep
    \/ RunStep
    \/ SessionStep
    \/ OperatorInterrupt

Spec == Init /\ [][Next]_vars

\* The Go scheduler runs main and the goroutine of TradeApp.run whenever they
\* can take a step, and Close returns.  Nothing is assumed of the operator nor
\* of the collaborator's events: readiness, errors and the return of a trading
\* call may never come.
FairSpec ==
    /\ Spec
    /\ WF_vars(MainStep)
    /\ WF_vars(RunConnect \/ RunSelectDone \/ RunSelectReady)

-----------------------------------------------------------------------------
(* Properties *)

RunSends == {i \in 1..Len(hist.sends) : hist.sends[i].who = "run"}
Exited == mainPc = "exited"
RaceResolved == hist.race # "running"

\* C1 (readiness gating): in every mode, no collaborator operation of the
\* dispatch (GetOrders, GetBalances, PlaceOrder, CancelOrder) has started
\* unless the readiness callback has fired before.
C1_ReadinessGating ==
    (hist.calls # <<>> \/ call # <<>> \/ orchPc = "call") => hist.readyFired > 0

C1_Witness ==
    /\ orchPc = "call"
    /\ call = <<"PlaceOrder">>
    /\ hist.readyFired = 1
    /\ hist.interrupts > 0

\* C2 (single dispatch): whatever the number of readiness notifications,
\* errors and interrupts, at most one dispatch call is ever started, hence
\* never two of them are in flight.
C2_SingleDispatch ==
    /\ Len(hist.calls) <= 1
    /\ Len(hist.calls) - Len(hist.rets) \in {0, 1}
    /\ Len(call) = Len(hist.calls) - Len(hist.rets)

C2_Witness ==
    /\ Len(hist.calls) = 1
    /\ hist.readyFired = MaxReady
    /\ hist.errorsReported > 0
    /\ hist.interrupts > 0
    /\ orchPc = "done"

\* C3 (shutdown state machine): main calls Close at most once; never while
\* it is still running (before it has received a signal or read errChan);
\* once it has received a signal or read errChan it eventually calls Close,
\* exactly once, and the process ends, whichever came first.
C3_ShutdownStateMachine ==
    /\ [](hist.closes <= 1)
    /\ [](hist.closes > 0 => RaceResolved)
    /\ []((Exited /\ RaceResolved) => hist.closes = 1)
    /\ (RaceResolved ~> (Exited /\ hist.closes = 1))

C3_Witness ==
    /\ Exited
    /\ hist.race = "outcome"
    /\ hist.closes = 1
    /\ hist.interrupts > 0

\* C4 (first writer wins): of the values sent on errChan (the dispatch
\* result by run, errors by the error callback), the one held for main is the
\* one sent first, main reads that one, and no other is ever rendered by main.
C4_FirstWriterWins ==
    /\ (hist.sends # <<>> /\ hist.mainRead = <<>>) => errChan.buf = <<hist.sends[1].v>>
    /\ hist.mainRead # <<>> => hist.mainRead[1] = hist.sends[1].v
    /\ \A i \in 1..Len(mainLog) :
          mainLog[i].msg = "Error" => mainLog[i].err = hist.sends[1].v

\* A session error and a successful dispatch were both sent, the error first,
\* and main has read and rendered its outcome.
C4_Witness ==
    /\ hist.mainRead # <<>>
    /\ mainPc = "close"
    /\ Len(hist.sends) >= 2
    /\ hist.sends[1].who = "OnError"
    /\ \E i \in RunSends : hist.sends[i].v = NilErr /\ hist.rets # <<>>

\* C5 (cancellation before readiness), as claimed: when main has received the
\* interrupt and cancelled before the readiness callback first fired, no
\* dispatch call is ever started, and the process ends with the connection
\* closed and, Close succeeding, with status 0.
C5_CancelBeforeReady ==
    hist.intrBeforeReady =>
        /\ hist.calls = <<>>
        /\ (Exited => hist.closes = 1)
        /\ (Exited /\ hist.closeRet = <<NilErr>> => exitStatus = 0)

\* C6 (exit-status mapping), as claimed: when the process ends after the race
\* (Close succeeding), the status is 0 if the interrupt won or the outcome
\* read is nil, and non-zero, with the error logged, if the outcome read is an
\* error.
C6_ExitStatusMapping ==
    (Exited /\ RaceResolved /\ hist.closeRet = <<NilErr>>) =>
        IF hist.race = "outcome" /\ hist.mainRead[1] # NilErr
        THEN /\ exitStatus # 0
             /\ \E i \in 1..Len(mainLog) : mainLog[i] = LogLine("Error", hist.mainRead[1])
        ELSE exitStatus = 0

\* C7 (shutdown error), as claimed: when Close returns an error after the
\* interrupt won or a nil outcome was read, the status stays 0.
C7_CloseErrorKeepsStatus ==
    (Exited /\ hist.closeRet = <<errClose>>
        /\ (hist.race = "signal" \/ hist.mainRead = <<NilErr>>)) => exitStatus = 0

\* The argument sets that validation is to reject.
Rejected(a) ==
    \/ a.Mode = ""
    \/ a.Mode \notin {"place", "cancel", "list", "balances"}
    \/ a.MarketID = 0
    \/ (a.Mode = "cancel" /\ a.OrderID = "")

\* C8 (configuration errors short-circuit): with a rejected argument set the
\* process goes from validation straight to exit with status 1; no client is
\* created, run is never started, Connect is never called, nothing dispatched.
C8_ConfigShortCircuit ==
    Rejected(args) =>
        /\ mainPc \in {"checkArgs", "exited"}
        /\ (Exited => exitStatus = 1)
        /\ orchPc = "idle"
        /\ hist.connects = 0
        /\ connState = "disconnected"
        /\ hist.calls = <<>>

C8_Witness ==
    /\ Exited
    /\ args = [Mode |-> "cancel", MarketID |-> 1, OrderID |-> ""]
    /\ exitStatus = 1
    /\ mainLog = <<LogLine("Print", errOrderEmpty)>>

\* C9 (connection closed before readiness), as claimed, for a collaborator
\* that closes for good: once the collaborator has closed before readiness and
\* without an error, then, unless it reconnects or reports an error later, main
\* eventually leaves its select without an operator interrupt (an outcome is
\* produced for it).
C9_SilentCloseHasOutcome ==
    (hist.silentClose /\ hist.interrupts = 0)
        ~> \/ RaceResolved
           \/ connState # "disconnected"
           \/ hist.errorsReported > 0
           \/ hist.interrupts > 0

\* The collaborator operation of each mode.
OperationOf ==
    [list |-> "GetOrders", balances |-> "GetBalances",
     place |-> "PlaceOrder", cancel |-> "CancelOrder"]

\* C10 (dispatch result mapping): the dispatch calls exactly the operation
\* of the mode, once; when it has returned (result, err), run has sent exactly
\* one value, err itself (nil when the call succeeded, an empty order list
\* included); before it returns, run has sent nothing.
C10_DispatchResultMapping ==
    hist.calls # <<>> =>
        /\ hist.calls = <<OperationOf[args.Mode]>>
        /\ IF hist.rets = <<>>
           THEN RunSends = {}
           ELSE /\ Len(hist.rets) = 1
                /\ Cardinality(RunSends) = 1
                /\ \A i \in RunSends : hist.sends[i].v = hist.rets[1].err

\* place was rejected and run has sent the rejection.
C10_Witness ==
    /\ args.Mode = "place"
    /\ hist.rets = <<[val |-> <<>>, err |-> errRejected]>>
    /\ \E i \in RunSends : hist.sends[i].v = errRejected

\* C11 (non-blocking outcome writes), as claimed, for the writes made once the
\* outcome is decided: after main has left its select (it receives from
\* errChan at most once), no send on errChan, by run or by the error callback,
\* leaves its sender parked.
C11_WritesNeverBlock == RaceResolved => errChan.sendq = <<>>

\* C12 (cooperative cancellation), as claimed: when the interrupt has won the
\* race, main calls Close only when no dispatch call is outstanding.
C12_CloseWaitsForCall ==
    [][(hist.race = "signal" /\ hist'.closes > hist.closes) => call = <<>>]_vars

ErrorSends == {i \in 1..Len(hist.sends) : hist.sends[i].who = "OnError"}

\* C13 (mid-session error becomes the outcome): a non-nil error handed to the
\* error callback while nothing has been sent on errChan yet is held in
\* errChan until main reads; when main's select takes the errChan branch it
\* reads that error and logs it as "Error: ..."; a nil error is never sent.
C13_MidSessionErrorIsOutcome ==
    /\ \A i \in ErrorSends : hist.sends[i].v # NilErr
    /\ Cardinality(ErrorSends) <= hist.errorsReported
    /\ (1 \in ErrorSends /\ hist.mainRead = <<>>) => errChan.buf = <<hist.sends[1].v>>
    /\ (1 \in ErrorSends /\ hist.race = "outcome") =>
          /\ hist.mainRead = <<hist.sends[1].v>>
          /\ mainPc \in {"close", "inClose", "exited"} =>
                \E i \in 1..Len(mainLog) : mainLog[i] = LogLine("Error", hist.sends[1].v)

\* An error reported while the dispatch call is outstanding has been read and
\* logged by main.
C13_Witness ==
    /\ hist.readyFired > 0
    /\ call # <<>>
    /\ hist.mainRead = <<SessionErr(1)>>
    /\ mainPc = "close"
    /\ mainLog = <<LogLine("Error", SessionErr(1))>>

\* C16 (the readiness handoff never blocks), as claimed: no invocation of the
\* OnReady callback is left parked in its send on app.ready once run has left
\* its select (run receives from app.ready nowhere else).
C16_OnReadyReturns == orchPc \in {"call", "sending", "done"} => readyq = 0

\* C17 (connect and close are ordered), as claimed: Connect is called at most
\* once, and never once Close has been called.
C17_ConnectBeforeClose ==
    [][hist'.connects > hist.connects => (hist.connects = 0 /\ hist.closes = 0)]_vars

\* C18 (no dispatch after the outcome is decided), as claimed: once main has
\* read errChan and called cancel(), no dispatch call is started.
C18_NoDispatchAfterOutcome ==
    [][(hist.race = "outcome" /\ ctxDone) => hist'.calls = hist.calls]_vars

\* C19 (the unknown-mode branch is unreachable): errUnknownMode is never sent
\* on errChan, hence never read by main, and main never prints the flag
\* defaults; whenever run has left its select without starting a call, it took
\* the ctx.Done() branch.
C19_UnknownModeUnreachable ==
    /\ \A i \in 1..Len(hist.sends) : hist.sends[i].v # errUnknownMode
    /\ hist.mainRead # <<errUnknownMode>>
    /\ \A i \in 1..Len(mainLog) : mainLog[i].msg # "PrintDefaults"
    /\ (orchPc \in {"sending", "done"} /\ hist.calls = <<>>) =>
          \E i \in RunSends : hist.sends[i].v = ctxCanceled

\* Validation passed, run took the ready branch and its command was sent.
C19_Witness ==
    /\ checkCliArgs(args) = NilErr
    /\ orchPc = "done"
    /\ hist.calls = <<"CancelOrder">>
    /\ hist.mainRead = <<NilErr>>

-----------------------------------------------------------------------------
(* The verbose state-change reporter (NewTradeApp, if args.Verbose) *)

\* The trade client's own variables, at rest while another specification runs.
TradeIdle ==
    /\ args = [Mode |-> "list", MarketID |-> 1, OrderID |-> ""]
    /\ mainPc = "checkArgs"
    /\ exitStatus = -1
    /\ mainLog = <<>>
    /\ orchPc = "idle"
    /\ ctxDone = FALSE
    /\ signals = 0
    /\ notified = FALSE
    /\ errChan = EmptyChan
    /\ readyq = 0
    /\ connState = "disconnected"
    /\ call = <<>>
    /\ hist = [connects |-> 0, closes |-> 0, readyFired |-> 0, errorsReported |-> 0,
               interrupts |-> 0, calls |-> <<>>, rets |-> <<>>, sends |-> <<>>,
               mainRead |-> <<>>, race |-> "running", intrBeforeReady |-> FALSE,
               silentClose |-> FALSE, closeRet |-> <<>>]

tradeVars == <<args, mainPc, exitStatus, mainLog, orchPc, ctxDone, signals, notified,
               errChan, readyq, connState, call, hist>>

\* lastErrChan <- err: into the buffer when there is room, else the callback
\* is parked at the tail of the send queue.
LastErrSend(ch, err) ==
    IF Len(ch.buf) < LastErrChanCap
    THEN [ch EXCEPT !.buf = Append(@, err)]
    ELSE [ch EXCEPT !.sendq = Append(@, [who |-> "OnError", v |-> err])]

\* The verbose error callback: if disconnecting { lastErrChan <- err; return };
\* log.Printf("Error: %s", err).  Yields the channel and what was printed.
VerboseOnError(ch, err, disconnecting) ==
    IF disconnecting
    THEN [ch |-> LastErrSend(ch, err), printed |-> <<>>]
    ELSE [ch |-> ch, printed |-> <<err>>]

\* Variant: the callback reads the pending error without taking it out.
OnStateChangePeek(ch) ==
    IF CanRecv(ch)
    THEN [ch |-> ch, annot |-> IF RecvValue(ch) # NilErr THEN <<RecvValue(ch)>> ELSE <<>>]
    ELSE [ch |-> ch, annot |-> <<>>]

\* The state-change callback: select { case err := <-lastErrChan: ... default: ... }.
\* Yields the channel and the error attached to the rendered line (<<>>: none).
OnStateChange(ch) ==
    IF CanRecv(ch)
    THEN [ch |-> RecvChan(ch), annot |-> IF RecvValue(ch) # NilErr THEN <<RecvValue(ch)>> ELSE <<>>]
    ELSE [ch |-> ch, annot |-> <<>>]

\* The connection states the collaborator may move to.
NextStates(st) ==
    CASE st = "disconnected" -> {"connecting"}
      [] st = "connecting" -> {"authenticating", "disconnected"}
      [] st = "authenticating" -> {"ready", "disconnected"}
      [] st = "ready" -> {"disconnected"}

ReporterInit ==
    /\ TradeIdle
    /\ stream = StreamOff
    /\ reporter \in {[ReporterOff EXCEPT !.verbose = v] : v \in BOOLEAN}

\* The collaborator reports (err, disconnecting); with -v the verbose error
\* callback is invoked.
ReporterError ==
    /\ reporter.errors < MaxErrors
    /\ \E err \in {NilErr, SessionErr(reporter.errors + 1)}, disconnecting \in BOOLEAN :
          reporter' =
             IF reporter.verbose
             THEN LET r == VerboseOnError(reporter.lastErrChan, err, disconnecting) IN
                  [reporter EXCEPT !.errors = @ + 1,
                                   !.lastErrChan = r.ch,
                                   !.printed = @ \o r.printed,
                                   !.reported = Append(@, [err |-> err, disc |-> disconnecting])]
             ELSE [reporter EXCEPT !.errors = @ + 1]
    /\ UNCHANGED <<tradeVars, stream>>

\* The collaborator moves to another connection state; with -v the
\* state-change callback renders the transition.
ReporterStateChange ==
    /\ \E new \in NextStates(reporter.state) :
          reporter' =
             IF reporter.verbose
             THEN LET r == OnStateChange(reporter.lastErrChan) IN
                  [reporter EXCEPT !.state = new,
                                   !.lastErrChan = r.ch,
                                   !.annotated = @ \o r.annot,
                                   !.lastAnnot = r.annot]
             ELSE [reporter EXCEPT !.state = new]
    /\ UNCHANGED <<tradeVars, stream>>

ReporterNext ==
    \/ ReporterError
    \/ ReporterStateChange

ReporterSpec == ReporterInit /\ [][ReporterNext]_vars

\* The errors handed to the verbose callback with disconnecting = true, in
\* the order reported, and those of them that are not nil.
RECURSIVE Disconnecting(_)
Disconnecting(rs) ==
    IF rs = <<>> THEN <<>>
    ELSE (IF Head(rs).disc THEN <<Head(rs).err>> ELSE <<>>) \o Disconnecting(Tail(rs))

RECURSIVE NonNil(_)
NonNil(es) ==
    IF es = <<>> THEN <<>>
    ELSE (IF Head(es) # NilErr THEN <<Head(es)>> ELSE <<>>) \o NonNil(Tail(es))

\* The errors waiting in lastErrChan, oldest first.
RECURSIVE Values(_)
Values(q) == IF q = <<>> THEN <<>> ELSE <<Head(q).v>> \o Values(Tail(q))

Pending == reporter.lastErrChan.buf \o Values(reporter.lastErrChan.sendq)

IsPrefix(a, b) == Len(a) <= Len(b) /\ \A i \in 1..Len(a) : a[i] = b[i]

C15_LastErrNeverBlocks == reporter.lastErrChan.sendq = <<>>

-----------------------------------------------------------------------------
(* The market-stream example program *)

\* The addresses the program may be given (the first is defaultURL), whether
\* url.Parse accepts them, and the scheme it finds.
StreamURLs == {"wss://sb.cryptowat.ch", "ws://localhost", "http://localhost", "%zz"}

URLParses(u) == u # "%zz"

URLScheme(u) ==
    CASE u = "wss://sb.cryptowat.ch" -> "wss"
      [] u = "ws://localhost" -> "ws"
      [] u = "http://localhost" -> "http"
      [] OTHER -> ""

StreamLine(msg, e) == [msg |-> msg, err |-> e]

StreamInit ==
    /\ TradeIdle
    /\ reporter = ReporterOff
    /\ stream \in {[StreamOff EXCEPT !.pc = "notify", !.url = u, !.detailed = d] :
                      u \in StreamURLs, d \in BOOLEAN}

StreamAlive == stream.pc \notin {"off", "exited"}

\* interrupt := make(chan os.Signal, 1); signal.Notify(interrupt, os.Interrupt)
StreamNotify ==
    /\ stream.pc = "notify"
    /\ stream' = [stream EXCEPT !.pc = "parse"]
    /\ UNCHANGED <<tradeVars, reporter>>

\* url.Parse(u) and the scheme check: log.Fatal on failure.
StreamParseURL ==
    /\ stream.pc = "parse"
    /\ stream' =
          IF ~URLParses(stream.url)
          THEN [stream EXCEPT !.pc = "exited", !.status = 1,
                              !.out = Append(@, StreamLine("Fatal: failed to parse address", NilErr))]
          ELSE IF URLScheme(stream.url) # "ws" /\ URLScheme(stream.url) # "wss"
          THEN [stream EXCEPT !.pc = "exited", !.status = 1,
                              !.out = Append(@, StreamLine("Fatal: the url should have ws or wss scheme", NilErr))]
          ELSE [stream EXCEPT !.pc = "newConn"]
    /\ UNCHANGED <<tradeVars, reporter>>

\* streamclient.NewMarketConn (log.Fatal on error), AddStateListener,
\* AddMessageListener.
StreamNewConn ==
    /\ stream.pc = "newConn"
    /\ \E err \in {NilErr, Err("new conn", 0)} :
          stream' =
             IF err # NilErr
             THEN [stream EXCEPT !.pc = "exited", !.status = 1,
                                 !.out = Append(@, StreamLine("Fatal", err))]
             ELSE [stream EXCEPT !.pc = "connect"]
    /\ UNCHANGED <<tradeVars, reporter>>

\* fmt.Printf("Connecting to %s ...\n", u); c.Connect()
StreamConnect ==
    /\ stream.pc = "connect"
    /\ stream' = [stream EXCEPT !.pc = "wait", !.connects = @ + 1,
                                !.out = Append(@, StreamLine("Connecting to", NilErr))]
    /\ UNCHANGED <<tradeVars, reporter>>

\* <-interrupt; fmt.Printf("Closing connection...\n")
StreamWaitInterrupt ==
    /\ stream.pc = "wait"
    /\ stream.interrupt > 0
    /\ stream' = [stream EXCEPT !.pc = "close", !.interrupt = @ - 1, !.received = TRUE,
                                !.out = Append(@, StreamLine("Closing connection...", NilErr))]
    /\ UNCHANGED <<tradeVars, reporter>>

\* c.Close() is called
StreamClose ==
    /\ stream.pc = "close"
    /\ stream' = [stream EXCEPT !.pc = "inClose", !.closes = @ + 1]
    /\ UNCHANGED <<tradeVars, reporter>>

\* Variant: a close failure ends the program with log.Fatalf.
StreamAfterCloseFatal(err) ==
    IF err # NilErr
    THEN [out |-> <<StreamLine("Fatal: Failed to close connection", err)>>, status |-> 1]
    ELSE [out |-> <<>>, status |-> 0]

\* if err := c.Close(); err != nil { fmt.Printf("Failed to close connection: %s", err) }
\* and main returns.
StreamAfterClose(err) ==
    IF err # NilErr
    THEN [out |-> <<StreamLine("Failed to close connection", err)>>, status |-> 0]
    ELSE [out |-> <<>>, status |-> 0]

\* c.Close() returns err; main returns and the process ends.
StreamCloseReturn ==
    /\ stream.pc = "inClose"
    /\ \E err \in {NilErr, errClose} :
          stream' = [stream EXCEPT !.pc = "exited",
                                   !.closeRet = <<err>>,
                                   !.status = StreamAfterClose(err).status,
                                   !.out = @ \o StreamAfterClose(err).out]
    /\ UNCHANGED <<tradeVars, reporter>>

\* The operator interrupts (os.Interrupt); the signal is dropped when the
\* buffer is full.
StreamInterrupt ==
    /\ stream.pc \notin {"off", "notify", "exited"}
    /\ stream.interrupts < MaxSignals
    /\ stream' = [stream EXCEPT !.interrupts = @ + 1,
                                !.interrupt = IF @ < InterruptCap THEN @ + 1 ELSE @]
    /\ UNCHANGED <<tradeVars, reporter>>

\* The state listener: prints "State updated: old -> new", and the cause when
\* there is one.  Called for any state the connection (Reconnect: true) moves to.
StreamStateChange ==
    /\ StreamAlive
    /\ stream.connects > 0
    /\ stream.transitions < MaxTransitions
    /\ \E new \in NextStates(stream.state), cause \in {NilErr, Err("cause", 0)} :
          stream' = [stream EXCEPT !.state = new, !.transitions = @ + 1,
                                   !.lastLine = <<[old |-> stream.state, new |-> new,
                                                   cause |-> cause]>>]
    /\ UNCHANGED <<tradeVars, reporter>>

\* The message listener: prints the market update (in full with -detailed).
StreamMessage ==
    /\ StreamAlive
    /\ stream.connects > 0
    /\ stream.messages < MaxMessages
    /\ stream' = [stream EXCEPT !.messages = @ + 1]
    /\ UNCHANGED <<tradeVars, reporter>>

StreamNext ==
    \/ StreamNotify
    \/ StreamParseURL
    \/ StreamNewConn
    \/ StreamConnect
    \/ StreamWaitInterrupt
    \/ StreamClose
    \/ StreamCloseReturn
    \/ StreamInterrupt
    \/ StreamStateChange
    \/ StreamMessage

StreamSpec == StreamInit /\ [][StreamNext]_vars

\* C20 (market-stream example): Close is called at most once, only after
\* Connect and after the interrupt was received; once connected, main stays
\* in its wait until the interrupt is received, whatever the listeners are
\* called with; a connected program ends only through Close, with status 0,
\* a close failure being printed.
C20_StreamClosesOnInterrupt ==
    /\ stream.closes <= 1
    /\ stream.closes > 0 => (stream.received /\ stream.connects = 1)
    /\ (stream.connects = 1 /\ ~stream.received) =>
          (stream.pc = "wait" /\ stream.closes = 0 /\ stream.status = -1)
    /\ (stream.pc = "exited" /\ stream.connects = 1) =>
          /\ stream.closes = 1
          /\ stream.status = 0
          /\ stream.closeRet = <<errClose>> =>
                stream.out[Len(stream.out)] = StreamLine("Failed to close connection", errClose)

\* Listeners were called, the interrupt came, Close failed, the program ended.
C20_Witness ==
    /\ stream.pc = "exited"
    /\ stream.closeRet = <<errClose>>
    /\ stream.status = 0
    /\ stream.transitions = MaxTransitions
    /\ stream.messages > 0

=============================================================================
